---- MODULE Spec2Model ----
(***************************************************************************)
(* Ferrous, rust/src/api: the PDF document pool (pdf.rs with_document),    *)
(* the pre-flight check and engine error classifier (ensure_pdf_header,    *)
(* map_pdfium_load_error, load_pdf_document), the two operations that      *)
(* open documents through with_pdfium (covers.rs, crop.rs), the page       *)
(* operations of pdf.rs (render, text, text near a point, character        *)
(* bounds) and the text normalization of tts_text.rs.                      *)
(***************************************************************************)
EXTENDS Integers, Sequences, FiniteSets, TLC

\* ------------------------------------------------------------------ bounds
\* Paths the callers use: one more than the pool holds, so that it overflows.
NumDocs == 5

Docs == 1..NumDocs
\* No path: the thread is in no operation, or holds no handle.
NoDoc == 0
\* Caller threads.
Threads == {"t1", "t2"}
NoThread == "none"
\* Pages of a document.
MaxPages == 2
\* Characters of a page's text layer, when every arrangement is drawn.
MaxChars == 3
\* Characters of a text given to tts_text, when every text is drawn.
MaxText == 4
\* Documents asked for under fair scheduling.
NumFairDocs == 3
\* Sentences of a list given to find_sentence_for_offset, and their offsets.
MaxSpans == 2
MaxOffset == 3

\* ------------------------------------------------------- program constants
\* LruCache::new(NonZeroUsize::new(4))
Cap == 4
\* let mut buf = [0u8; 1024]
BufLen == 1024
\* b"%PDF-", windows(5)
SigLen == 5
\* page_index as u16: the values of a u16
U16 == 65536
\* let mut tolerance = PdfPoints::new(6.0)
FirstTolerance == 6
\* for _ in 0..4
Attempts == 4
\* for _ in 0..32
Lookback == 32

VARIABLES
    cache,       \* DOCUMENT_POOL: entries [key, doc], most recently used first
    lockHolder,  \* the thread holding the pool Mutex, or NoThread
    poisoned,    \* the Mutex's poison flag
    pc,          \* per thread: position in the operation it is running
    path,        \* per thread: the path argument of the running operation
    via,         \* per thread: "hit" or "miss" once with_document resolved path
    cbDoc,       \* per thread: the document whose handle the callback was given
    invoked,     \* per thread: callback invocations of the running call
    cbRet,       \* per thread: what the callback returned
    dropped,     \* per thread: the key the running call evicted from the pool
    result,      \* per thread: what the finished with_document call returned
    own,         \* per thread: document of a handle held outside the pool
    rank,        \* history: recency rank of each document's last pool access
    lfile,       \* load_pdf_document alone: the file at the path
    lstage,      \* load_pdf_document alone: position
    lres,        \* load_pdf_document alone: result
    engineCalls, \* load_pdf_document alone: calls of load_pdf_from_file
    stale,       \* a document whose file was deleted, emptied or replaced, and the file now
    pdoc,        \* page operations alone: the document and the page they get
    pcall,       \* page operations alone: the running operation and its arguments
    pstage,      \* page operations alone: position
    pageGot,     \* page operations alone: index of the page pages().get returned
    tolerance,   \* extract_pdf_page_text_from_point: the local `tolerance`
    picked,      \* extract_pdf_page_text_from_point: the local `picked`
    queries,     \* history: the get_char_near_point calls made and their answers
    pres,        \* page operations alone: result
    ttsIn,       \* tts_text alone: the text given
    ttsStage,    \* tts_text alone: position
    ttsNorm,     \* tts_text alone: normalized_text of the result
    ttsAgain,    \* tts_text alone: normalize_text of ttsNorm
    ttsWords,    \* tts_text alone: words of the result
    ttsSentences, \* tts_text alone: sentences of the result, or a list given
    ttsFound     \* tts_text alone: find_sentence_for_offset's argument and result

poolVars == <<cache, lockHolder, poisoned, pc, path, via, cbDoc, invoked, cbRet,
              dropped, result, own, rank>>
loadVars == <<lfile, lstage, lres, engineCalls, stale>>
pageVars == <<pdoc, pcall, pstage, pageGot, tolerance, picked, queries, pres>>
ttsVars == <<ttsIn, ttsStage, ttsNorm, ttsAgain, ttsWords, ttsSentences, ttsFound>>
vars == <<cache, lockHolder, poisoned, pc, path, via, cbDoc, invoked, cbRet,
          dropped, result, own, rank, lfile, lstage, lres, engineCalls, stale,
          pdoc, pcall, pstage, pageGot, tolerance, picked, queries, pres,
          ttsIn, ttsStage, ttsNorm, ttsAgain, ttsWords, ttsSentences, ttsFound>>

\* ------------------------------------------------- files and the engine
\* What the engine's load_pdf_from_file reports for a file.
EngineReports == {"Ok", "FormatError", "PasswordError", "FileError",
                  "SecurityError", "PageError", "Unknown", "IoError"}

\* A file as ensure_pdf_header and the engine see it: stat succeeds or not,
\* the length stat reports, open succeeds or not, what one read into the
\* 1024-byte buffer returns (-1: an error, else the byte count, which may be
\* short of the file), the offset of the first "%PDF-" in the file (-1: none),
\* and the engine's report.
Lens == {0, 4, 5, 1024, 2000}
Reads == {-1, 0, 4, 5, 1023, 1024}
SigAts == {-1, 0, 1019, 1020}

Min(a, b) == IF a < b THEN a ELSE b

Files ==
    { f \in [stat : BOOLEAN, len : Lens, open : BOOLEAN, read : Reads,
             sigAt : SigAts, engine : EngineReports] :
        /\ f.read <= Min(f.len, BufLen)
        /\ (f.sigAt # -1 => f.sigAt + SigLen <= f.len) }

NoFile == [stat |-> FALSE, len |-> 0, open |-> FALSE, read |-> -1,
           sigAt |-> -1, engine |-> "none"]

\* The file of a pooled document after it was deleted, truncated to nothing,
\* or overwritten with something that is no PDF.
DeletedFile == NoFile
EmptiedFile == [stat |-> TRUE, len |-> 0, open |-> TRUE, read |-> 0,
                sigAt |-> -1, engine |-> "FormatError"]
ReplacedFile == [stat |-> TRUE, len |-> 2000, open |-> TRUE, read |-> 1024,
                 sigAt |-> -1, engine |-> "FormatError"]
StaleFiles == {DeletedFile, EmptiedFile, ReplacedFile}

\* No document's file has changed under the pool.
NoStale == [doc |-> NoDoc, file |-> NoFile]

\* buf[..read].windows(5).any(|w| w == b"%PDF-")
header_found(f) == f.sigAt # -1 /\ f.sigAt + SigLen <= f.read

\* Faulty variant: the file is opened and read before its length is looked at.
ensure_pdf_header_OpenFirst(f) ==
    IF ~f.stat THEN "FILE"
    ELSE IF ~f.open THEN "FILE"
    ELSE IF f.len = 0 THEN "EMPTY"
    ELSE IF f.read = -1 THEN "FILE"
    ELSE IF f.read = 0 THEN "EMPTY"
    ELSE IF ~(f.sigAt # -1 /\ f.sigAt + SigLen <= f.read) THEN "HEADER"
    ELSE "OK"

ensure_pdf_header(f) ==
    IF ~f.stat THEN "FILE"
    ELSE IF f.len = 0 THEN "EMPTY"
    ELSE IF ~f.open THEN "FILE"
    ELSE IF f.read = -1 THEN "FILE"
    ELSE IF f.read = 0 THEN "EMPTY"
    ELSE IF ~header_found(f) THEN "HEADER"
    ELSE "OK"

\* Faulty variant: the PasswordError arm is missing.
map_pdfium_load_error_NoPassword(e) ==
    CASE e = "FormatError" -> "FORMAT"
      [] e = "FileError" -> "FILE"
      [] e = "SecurityError" -> "SECURITY"
      [] e = "PageError" -> "PAGE"
      [] OTHER -> "GENERIC"

map_pdfium_load_error(e) ==
    CASE e = "FormatError" -> "FORMAT"
      [] e = "PasswordError" -> "PASSWORD"
      [] e = "FileError" -> "FILE"
      [] e = "SecurityError" -> "SECURITY"
      [] e = "PageError" -> "PAGE"
      [] OTHER -> "GENERIC"

\* ensure_pdf_header(path)?; load_pdf_from_file(path).map_err(map_pdfium_load_error)
load_pdf_document(f) ==
    IF ensure_pdf_header(f) # "OK" THEN ensure_pdf_header(f)
    ELSE IF f.engine = "Ok" THEN "OK"
    ELSE map_pdfium_load_error(f.engine)

\* Every result load_pdf_document can give on some file.
LoadOutcomes == { load_pdf_document(f) : f \in Files }
OpenErrors == LoadOutcomes \ {"OK"}

\* detect_pdf_whitespace: load_pdf_from_file(..).map_err("Failed to load PDF")
crop_load(f) == IF f.engine = "Ok" THEN "OK" ELSE "GENERIC"
CropOutcomes == { crop_load(f) : f \in Files }

\* ------------------------------------------------------------- LruCache
Keys(c) == { c[i].key : i \in 1..Len(c) }
IndexOf(c, k) == IF k \in Keys(c) THEN CHOOSE i \in 1..Len(c) : c[i].key = k ELSE 0
Without(c, i) == SubSeq(c, 1, i - 1) \o SubSeq(c, i + 1, Len(c))

\* Faulty variant: a lookup that does not update recency (peek).
LruGetNoPromote(c, k) == c

\* LruCache::get: the entry found is moved to the most-recently-used end.
LruGet(c, k) ==
    IF IndexOf(c, k) = 0 THEN c
    ELSE <<c[IndexOf(c, k)]>> \o Without(c, IndexOf(c, k))

\* Faulty variant: a put that never evicts.
LruPutGrow(c, k, v) ==
    IF IndexOf(c, k) # 0 THEN <<[key |-> k, doc |-> v]>> \o Without(c, IndexOf(c, k))
    ELSE <<[key |-> k, doc |-> v]>> \o c

\* LruCache::put: replaces the value of a present key, else evicts the least
\* recently used entry when full; the entry put is the most recently used.
LruPut(c, k, v) ==
    IF IndexOf(c, k) # 0 THEN <<[key |-> k, doc |-> v]>> \o Without(c, IndexOf(c, k))
    ELSE IF Len(c) >= Cap THEN <<[key |-> k, doc |-> v]>> \o SubSeq(c, 1, Cap - 1)
    ELSE <<[key |-> k, doc |-> v]>> \o c

\* The recency history of the pool's entries, kept beside the pool: an access
\* (cache.get that finds d, or cache.put of d) gives d rank 1 and moves the
\* documents accessed since d's previous access one rank down; a document no
\* longer in the pool has rank 0.
Touch(r, d) ==
    [x \in Docs |->
        IF x = d THEN 1
        ELSE IF r[x] # 0 /\ (r[d] = 0 \/ r[x] < r[d]) THEN r[x] + 1
        ELSE r[x]]
Forget(r, c) == [x \in Docs |-> IF x \in Keys(c) THEN r[x] ELSE 0]

\* Faulty variant: a pooled document is served only while its file is intact.
Cached_Revalidates(c, p, st) == p \in Keys(c) /\ p # st.doc

\* cache.get(path) is Some: the file at the path is not looked at.
Cached(c, p, st) == p \in Keys(c)

\* What load_pdf_document can return for path p: anything a file can give,
\* but for the stale document what its file now gives.
LoadResults(p, st) ==
    IF p = st.doc THEN {load_pdf_document(st.file)} ELSE LoadOutcomes

\* ------------------------------------------------------------ the Mutex
\* Faulty variant: a lock that excludes nobody.
LockAlways(h) == TRUE

\* Faulty variant: a lock that is never granted.
LockNever(h) == FALSE

\* pool.lock(): granted when no thread holds the Mutex.
LockFree(h) == h = NoThread

\* Faulty variant: a guard dropped by a panic leaves the Mutex clean.
GuardDropPoisons_Never(was, panicking) == was

\* MutexGuard::drop: the Mutex is poisoned when the guard is dropped while
\* its thread panics, and stays poisoned.
GuardDropPoisons(was, panicking) == was \/ panicking

\* Faulty variant: the path is put in the pool whatever the load returned.
CacheLoadAlwaysPut(c, p, outcome) == LruGet(LruPut(c, p, p), p)

\* The pool after load_pdf_document returned `outcome` for path p:
\* `?` returns before cache.put on a failure; cache.put then cache.get on success.
CacheAfterLoad(c, p, outcome) ==
    IF outcome = "OK" THEN LruGet(LruPut(c, p, p), p) ELSE c

\* Faulty variant: the guard is released once the handle is found, before f runs.
GuardDropped(t) == NoThread

\* The guard while f(doc) runs: `doc` borrows from `cache`, the MutexGuard,
\* which therefore lives until with_document returns.
GuardDuringCallback(t) == t

\* The handle cache.get(path) hands to the callback.
Handle(c, p) == c[IndexOf(c, p)].doc

\* Faulty variant: the hit path swallows the callback's error.
ReturnedHitSwallows(how, r) == IF how = "hit" THEN "Ok" ELSE r

\* What with_document returns for the callback's return value r: `return f(doc)`
\* on the hit path, the tail expression f(doc) on the miss path.
Returned(how, r) == r

\* ------------------------------------------------------- page operations
\* A character of a page's text layer: chars.get(i) is Ok (get); its
\* unicode_char() is a letter, whitespace " " or None ("none");
\* loose_bounds().or_else(tight_bounds) is Ok (hasBox) with rectangle box,
\* in points of the page's user space.
ZeroBox == [left |-> 0, bottom |-> 0, right |-> 0, top |-> 0]
Unreadable == [get |-> FALSE, cp |-> "none", hasBox |-> FALSE, box |-> ZeroBox]
NoCodepoint == [get |-> TRUE, cp |-> "none", hasBox |-> FALSE, box |-> ZeroBox]
Boxless == [get |-> TRUE, cp |-> "b", hasBox |-> FALSE, box |-> ZeroBox]
Letter(b) == [get |-> TRUE, cp |-> "a", hasBox |-> TRUE, box |-> b]
InsideBox == [left |-> 0, bottom |-> 0, right |-> 1, top |-> 1]
OtherBox == [left |-> 1, bottom |-> 1, right |-> 2, top |-> 2]
Whitespace == [get |-> TRUE, cp |-> " ", hasBox |-> TRUE, box |-> InsideBox]

\* Character boxes: each side left of, inside, or right of the page; so some
\* are inverted and some lie partly or wholly outside the page.
Coords == {-1, 1, 3}
Boxes == [left : Coords, bottom : Coords, right : Coords, top : Coords]

\* page.page_size(): origin (left, bottom), width and height, in points.
GoodGeom == [left |-> 0, bottom |-> 0, width |-> 2, height |-> 2]
FlatGeom == [left |-> 0, bottom |-> 0, width |-> 0, height |-> 2]
PageGeoms ==
    { [left |-> o, bottom |-> o, width |-> wh[1], height |-> wh[2]] :
        o \in {0, 1}, wh \in {<<2, 2>>, <<0, 2>>, <<2, -1>>} }

RECURSIVE SeqsUpTo(_, _)
SeqsUpTo(S, n) ==
    IF n = 0 THEN {<<>>}
    ELSE LET shorter == SeqsUpTo(S, n - 1)
         IN  shorter \cup { Append(q, x) : q \in shorter, x \in S }

Letters(n) == [i \in 1..n |-> Letter(InsideBox)]

\* Text layers: every arrangement of the kinds of character up to MaxChars,
\* and words longer than the look-back of the word snap, one of them with a
\* character without codepoint inside.
StructChars == {Unreadable, NoCodepoint, Whitespace, Boxless,
                Letter(InsideBox), Letter(OtherBox)}
LongTexts == { Letters(n) : n \in {Lookback, Lookback + 2} }
                 \cup { <<Whitespace>> \o Letters(Lookback + 1) }
                 \cup { Letters(2) \o <<NoCodepoint>> \o Letters(Lookback) }

\* The documents: [count: pages, text and geom: of the page an operation gets].
PageDocs ==
    { [count |-> n, text |-> <<Letter(InsideBox)>>, geom |-> GoodGeom] :
        n \in 0..MaxPages }
    \cup { [count |-> 1, text |-> tx, geom |-> g] :
             tx \in SeqsUpTo(StructChars, MaxChars), g \in {GoodGeom, FlatGeom} }
    \cup { [count |-> 1, text |-> <<Letter(b)>>, geom |-> g] :
             b \in Boxes, g \in PageGeoms }
    \cup { [count |-> 1, text |-> tx, geom |-> GoodGeom] : tx \in LongTexts }

\* page_index: u32 arguments, in and above the range of u16.
PageIndexes == {0, MaxPages, U16 - 1, U16, U16 + 1}
\* start_index, end_index arguments.
CharIndexes == 0..(MaxChars + 1)

NoPage == -1
NoChar == -1
NoCall == [op |-> "none", page_index |-> 0, start_index |-> 0, end_index |-> 0]
NoResult == [ok |-> FALSE, val |-> "none"]
Ok(v) == [ok |-> TRUE, val |-> v]
Err(k) == [ok |-> FALSE, val |-> k]

\* document.pages().get(page_index as u16): the page's index, or NoPage for
\* PdfiumError::PageIndexOutOfBounds.
pages_get(count, page_index) ==
    LET index == page_index % U16
    IN  IF index < count THEN index ELSE NoPage

\* chars.get(i), for i counted from 0 as in the code.
CharAt(text, i) == IF i + 1 \in 1..Len(text) THEN text[i + 1] ELSE Unreadable

\* c.is_whitespace()
is_whitespace(c) == c = " "

\* The character passes every `continue` of the loops: it is read, has a
\* codepoint, is not whitespace, and has bounds.
Visible(ch) == ch.get /\ ch.cp # "none" /\ ~is_whitespace(ch.cp) /\ ch.hasBox

\* Faulty variant: no clamping.
clamp_Off(v, lo, hi) == v

\* f32::clamp
clamp(v, lo, hi) == IF v < lo THEN lo ELSE IF v > hi THEN hi ELSE v

ZeroRect == [left |-> 0, top |-> 0, right |-> 0, bottom |-> 0]

\* The rectangle pushed for a character with bounds.  A normalized x is held
\* as x * width and a normalized y as y * height (width, height > 0 here), so
\* 1.0 is g.width on the x axis and g.height on the y axis, and the divisions
\* of the code stay exact.
char_rect(ch, g) ==
    LET left0 == ch.box.left - g.left
        right0 == ch.box.right - g.left
        top0 == g.height - (ch.box.top - g.bottom)
        bottom0 == g.height - (ch.box.bottom - g.bottom)
        left == IF left0 > right0 THEN right0 ELSE left0
        right == IF left0 > right0 THEN left0 ELSE right0
        top == IF top0 > bottom0 THEN bottom0 ELSE top0
        bottom == IF top0 > bottom0 THEN top0 ELSE bottom0
    IN  [left |-> clamp(left, 0, g.width), top |-> clamp(top, 0, g.height),
         right |-> clamp(right, 0, g.width), bottom |-> clamp(bottom, 0, g.height)]

\* for i in 0..total of extract_all_page_character_bounds: pads.
RECURSIVE all_loop(_, _, _, _)
all_loop(text, g, i, end) ==
    IF i >= end THEN <<>>
    ELSE (IF Visible(CharAt(text, i)) THEN <<char_rect(CharAt(text, i), g)>>
          ELSE <<ZeroRect>>) \o all_loop(text, g, i + 1, end)

\* Faulty variant: the range loop pads like the whole-page loop.
bounds_loop_Pads(text, g, i, end) == all_loop(text, g, i, end)

\* for i in start..end of extract_pdf_page_text_bounds: skips.
RECURSIVE bounds_loop(_, _, _, _)
bounds_loop(text, g, i, end) ==
    IF i >= end THEN <<>>
    ELSE (IF Visible(CharAt(text, i)) THEN <<char_rect(CharAt(text, i), g)>>
          ELSE <<>>) \o bounds_loop(text, g, i + 1, end)

\* Faulty variant: an empty range is an error.
EmptyRangeIsError == Err("RANGE")

\* return Ok(Vec::new()) of `if start >= end || start >= total`
EmptyRange == Ok(<<>>)

\* extract_pdf_page_text_bounds, the callback given to with_document.
extract_pdf_page_text_bounds(doc, page_index, start_index, end_index) ==
    LET total == Len(doc.text)
        g == doc.geom
    IN  IF pages_get(doc.count, page_index) = NoPage THEN Err("PAGE_INDEX")
        ELSE IF total = 0 THEN Ok(<<>>)
        ELSE IF start_index >= end_index \/ start_index >= total THEN EmptyRange
        ELSE IF g.width <= 0 \/ g.height <= 0 THEN Ok(<<>>)
        ELSE Ok(bounds_loop(doc.text, g, start_index, Min(end_index, total)))

\* extract_all_page_character_bounds, the callback given to with_document.
extract_all_page_character_bounds(doc, page_index) ==
    LET total == Len(doc.text)
        g == doc.geom
    IN  IF pages_get(doc.count, page_index) = NoPage THEN Err("PAGE_INDEX")
        ELSE IF total = 0 THEN Ok(<<>>)
        ELSE IF g.width <= 0 \/ g.height <= 0 THEN Ok(<<>>)
        ELSE Ok(all_loop(doc.text, g, 0, total))

\* The codepoints of characters i..total-1 that are read and have one.
RECURSIVE text_from(_, _)
text_from(text, i) ==
    IF i >= Len(text) THEN <<>>
    ELSE (IF CharAt(text, i).get /\ CharAt(text, i).cp # "none"
          THEN <<CharAt(text, i).cp>> ELSE <<>>) \o text_from(text, i + 1)

\* Ok(text.all())
text_all(text) == Ok(text_from(text, 0))

\* extract_pdf_page_text, the callback given to with_document.
extract_pdf_page_text(doc, page_index) ==
    IF pages_get(doc.count, page_index) = NoPage THEN Err("PAGE_INDEX")
    ELSE text_all(doc.text)

\* render_pdf_page, the callback given to with_document: the image of the
\* page it got.
render_pdf_page(doc, page_index) ==
    IF pages_get(doc.count, page_index) = NoPage THEN Err("PAGE_INDEX")
    ELSE Ok([page |-> pages_get(doc.count, page_index)])

\* Faulty variant: the scan stops only at index 0 or at a break.
snap_Unbounded(text, start, n) ==
    LET stops == { s \in 0..start :
                     s = 0 \/ ~CharAt(text, s - 1).get
                       \/ CharAt(text, s - 1).cp = "none"
                       \/ is_whitespace(CharAt(text, s - 1).cp) }
    IN  CHOOSE s \in stops : \A s2 \in stops : s2 <= s

\* for _ in 0..32 { ... start_index -= 1 }, with n rounds left.
RECURSIVE snap(_, _, _)
snap(text, start, n) ==
    IF n = 0 \/ start = 0 THEN start
    ELSE LET prev == CharAt(text, start - 1)
         IN  IF ~prev.get THEN start
             ELSE IF prev.cp = "none" THEN start
             ELSE IF is_whitespace(prev.cp) THEN start
             ELSE snap(text, start - 1, n - 1)

\* Faulty variant: no snap.
word_start_NoSnap(text, k) == Min(k, Len(text) - 1)

\* picked_char.index().min(total.saturating_sub(1)), then the snap.
word_start(text, k) == snap(text, Min(k, Len(text) - 1), Lookback)

\* Faulty variant: a miss is an error.
from_point_result_MissIsError(text, k) ==
    IF k = NoChar THEN Err("NO_MATCH")
    ELSE IF Len(text) = 0 THEN Ok(<<>>)
    ELSE Ok(text_from(text, word_start(text, k)))

\* extract_pdf_page_text_from_point after the tolerance loop, picked = k.
from_point_result(text, k) ==
    IF k = NoChar THEN Ok(<<>>)
    ELSE IF Len(text) = 0 THEN Ok(<<>>)
    ELSE Ok(text_from(text, word_start(text, k)))

\* for _ in 0..4, after n attempts
AttemptsLeft(n) == n < Attempts

\* Faulty variant: tolerance grows by a constant.
NextTolerance_Linear(tol) == tol + FirstTolerance

\* tolerance = tolerance * 2.0
NextTolerance(tol) == tol * 2

\* if picked.is_some() { break; }
LoopBreaks(p) == p # NoChar

\* ------------------------------------------------------------- tts_text
\* A text is a sequence of characters of this alphabet: a lower-case and an
\* upper-case letter, the full stop, the White_Space characters space, tab,
\* newline and U+00A0, and U+200B, which is not White_Space.
Tab == "tab"
Newline == "nl"
Nbsp == "nbsp"
Zwsp == "zwsp"
LowerCase == {"a", "d", "e", "h", "i", "l", "o", "r", "s", "t", "w"}
UpperCase == {"A", "H", "T"}
Alphabet == {"a", "A", ".", " ", Tab, Newline, Nbsp, Zwsp}
\* What str::trim and the regex class \s take for whitespace.
WhiteSpace == {" ", Tab, Newline, Nbsp}
\* "Hello world. This is a test." of test_tts_text_module
HelloText == <<"H", "e", "l", "l", "o", " ", "w", "o", "r", "l", "d", ".", " ",
               "T", "h", "i", "s", " ", "i", "s", " ", "a", " ",
               "t", "e", "s", "t", ".">>
\* Three sentences, and one sentence with a doubled space and an abbreviation.
SampleTexts == {HelloText,
                <<"A", ".", " ", "A", "a", ".", " ", "A", ".">>,
                <<"A", " ", Zwsp, " ", "a", ".", "a", ".", " ", "a">>}
Texts == SeqsUpTo(Alphabet, MaxText) \cup SampleTexts

RECURSIVE trim_start(_)
trim_start(s) ==
    IF s # <<>> /\ Head(s) \in WhiteSpace THEN trim_start(Tail(s)) ELSE s

RECURSIVE trim_end(_)
trim_end(s) ==
    IF s # <<>> /\ s[Len(s)] \in WhiteSpace
    THEN trim_end(SubSeq(s, 1, Len(s) - 1)) ELSE s

\* text.trim()
trim(s) == trim_end(trim_start(s))

\* regex.replace_all(_, " ") with the regex \s+: every maximal run of
\* whitespace becomes one space.
RECURSIVE replace_all_ws(_)
replace_all_ws(s) ==
    IF s = <<>> THEN <<>>
    ELSE IF Head(s) \in WhiteSpace THEN <<" ">> \o replace_all_ws(trim_start(s))
    ELSE <<Head(s)>> \o replace_all_ws(Tail(s))

\* str::replace(from, to) for a one-character pattern; to is a text.
RECURSIVE replace(_, _, _)
replace(s, from, to) ==
    IF s = <<>> THEN <<>>
    ELSE (IF Head(s) = from THEN to ELSE <<Head(s)>>) \o replace(Tail(s), from, to)

\* normalize_text
normalize_text(text) ==
    replace(replace(replace_all_ws(trim(text)), Nbsp, <<" ">>), Zwsp, <<>>)

\* Character classes of Unicode text segmentation (UAX #29) on this
\* alphabet.  A normalized text holds letters, "." and the characters
\* normalize_text leaves or makes; U+200B is never in it.
IsAlpha(c) == c \in LowerCase \cup UpperCase

\* No word boundary between s[i] and s[i+1]: letter x letter (WB5),
\* letter x "." letter and letter "." x letter (WB6, WB7, "." being
\* MidNumLet), space x space (WB3d).
WordJoin(s, i) ==
    \/ IsAlpha(s[i]) /\ IsAlpha(s[i + 1])
    \/ IsAlpha(s[i]) /\ s[i + 1] = "." /\ i + 2 <= Len(s) /\ IsAlpha(s[i + 2])
    \/ s[i] = "." /\ IsAlpha(s[i + 1]) /\ i >= 2 /\ IsAlpha(s[i - 1])
    \/ s[i] = " " /\ s[i + 1] = " "

\* Sentence_Break class Sp: White_Space that is no paragraph separator.
IsSp(c) == c \in WhiteSpace \ {Newline}

\* A sentence boundary between s[i] and s[i+1]: after a newline (SB4), or
\* after "." and the spaces that follow it (SB9, SB10, SB11), unless what
\* comes next is a lower-case letter (SB8), another "." (SB8a), a newline
\* (SB9) or, with no space between, an upper-case letter after letter "."
\* (SB7).
SentenceBreak(s, i) ==
    \/ s[i] = Newline
    \/ /\ \E p \in 1..i : s[p] = "." /\ \A q \in (p + 1)..i : IsSp(s[q])
       /\ ~IsSp(s[i + 1])
       /\ s[i + 1] \notin LowerCase \cup {".", Newline}
       /\ ~(s[i] = "." /\ s[i + 1] \in UpperCase /\ i >= 2 /\ IsAlpha(s[i - 1]))

\* The pieces of s between the cut points, in order.
SplitAt(s, cuts) ==
    LET pts == cuts \cup {0, Len(s)}
        nth(k) == CHOOSE p \in pts : Cardinality({ q \in pts : q < p }) = k
    IN  [k \in 1..(Cardinality(pts) - 1) |-> SubSeq(s, nth(k - 1) + 1, nth(k))]

\* normalized.split_word_bounds()
split_word_bounds(s) ==
    SplitAt(s, { i \in 1..(Len(s) - 1) : ~WordJoin(s, i) })

\* normalized.split_sentence_bounds()
split_sentence_bounds(s) ==
    SplitAt(s, { i \in 1..(Len(s) - 1) : SentenceBreak(s, i) })

\* Faulty variant: every piece is a word, whitespace too.
KeepsWord_All(word) == TRUE

\* Faulty variant: only a piece with a letter is a word.
KeepsWord_Letters(word) == \E n \in 1..Len(word) : IsAlpha(word[n])

\* !word.trim().is_empty()
KeepsWord(word) == trim(word) # <<>>

\* for word in normalized.split_word_bounds() { ... }, from piece n on, with
\* the running char_offset.
RECURSIVE word_loop(_, _, _)
word_loop(pieces, n, char_offset) ==
    IF n > Len(pieces) THEN <<>>
    ELSE LET word == pieces[n]
             word_len == Len(word)
         IN  (IF KeepsWord(word)
              THEN <<[start |-> char_offset, end |-> char_offset + word_len,
                      text |-> word]>>
              ELSE <<>>) \o word_loop(pieces, n + 1, char_offset + word_len)

\* Faulty variant: the span is the whole piece, boundary whitespace too.
sentence_span_Untrimmed(sentence, char_offset) ==
    [start |-> char_offset, end |-> char_offset + Len(sentence)]

\* SentenceSpan { start: char_offset + leading_chars,
\*                end: char_offset + sentence_len - trailing_chars }
sentence_span(sentence, char_offset) ==
    LET leading_chars == Len(sentence) - Len(trim_start(sentence))
        trailing_chars == Len(sentence) - Len(trim_end(sentence))
    IN  [start |-> char_offset + leading_chars,
         end |-> char_offset + Len(sentence) - trailing_chars]

\* for sentence in normalized.split_sentence_bounds() { ... }
RECURSIVE sentence_loop(_, _, _)
sentence_loop(pieces, n, char_offset) ==
    IF n > Len(pieces) THEN <<>>
    ELSE LET sentence == pieces[n]
         IN  (IF trim(sentence) # <<>>
              THEN <<sentence_span(sentence, char_offset)>>
              ELSE <<>>) \o sentence_loop(pieces, n + 1, char_offset + Len(sentence))

\* precompute_text_highlights: words and sentences of the normalized text.
words_of(normalized) ==
    IF normalized = <<>> THEN <<>>
    ELSE word_loop(split_word_bounds(normalized), 1, 0)

sentences_of(normalized) ==
    IF normalized = <<>> THEN <<>>
    ELSE sentence_loop(split_sentence_bounds(normalized), 1, 0)

\* Faulty variant: an offset in no sentence finds nothing.
find_fallback_None(sentences) == <<>>

\* Faulty variant: an offset in no sentence finds the first sentence.
find_fallback_First(sentences) ==
    IF sentences = <<>> THEN <<>> ELSE <<sentences[1]>>

\* sentences.last().cloned(): <<>> for None, <<span>> for Some(span)
find_fallback(sentences) ==
    IF sentences = <<>> THEN <<>> ELSE <<sentences[Len(sentences)]>>

\* find_sentence_for_offset, from sentence n on.
RECURSIVE find_from(_, _, _)
find_from(sentences, offset, n) ==
    IF n > Len(sentences) THEN find_fallback(sentences)
    ELSE IF offset >= sentences[n].start /\ offset < sentences[n].end
         THEN <<sentences[n]>>
         ELSE find_from(sentences, offset, n + 1)

find_sentence_for_offset(sentences, offset) == find_from(sentences, offset, 1)

\* Sentence lists given to find_sentence_for_offset directly: any spans, in
\* any order.
Spans == [start : 0..MaxOffset, end : 0..MaxOffset]
SpanLists == SeqsUpTo(Spans, MaxSpans)

NoFind == [offset |-> 0, found |-> <<>>]

\* --------------------------------------------- the other parts at rest
NoPdoc == [count |-> 0, text |-> <<>>, geom |-> GoodGeom]

PageOff ==
    /\ pdoc = NoPdoc
    /\ pcall = NoCall
    /\ pstage = "off"
    /\ pageGot = NoPage
    /\ tolerance = 0
    /\ picked = NoChar
    /\ queries = <<>>
    /\ pres = NoResult

TtsOff ==
    /\ ttsIn = <<>>
    /\ ttsStage = "off"
    /\ ttsNorm = <<>>
    /\ ttsAgain = <<>>
    /\ ttsWords = <<>>
    /\ ttsSentences = <<>>
    /\ ttsFound = NoFind

\* ---------------------------------------------------------------- Init
Init ==
    /\ cache = <<>>
    /\ lockHolder = NoThread
    /\ poisoned = FALSE
    /\ pc = [t \in Threads |-> "idle"]
    /\ path = [t \in Threads |-> NoDoc]
    /\ via = [t \in Threads |-> "none"]
    /\ cbDoc = [t \in Threads |-> NoDoc]
    /\ invoked = [t \in Threads |-> 0]
    /\ cbRet = [t \in Threads |-> "none"]
    /\ dropped = [t \in Threads |-> NoDoc]
    /\ result = [t \in Threads |-> "none"]
    /\ own = [t \in Threads |-> NoDoc]
    /\ rank = [d \in Docs |-> 0]
    /\ lfile = NoFile
    /\ lstage = "off"
    /\ lres = "none"
    /\ engineCalls = 0
    /\ stale = NoStale
    /\ PageOff
    /\ TtsOff

\* The operation of thread t ends with result r: its locals are gone.
Finish(t, r) ==
    /\ pc' = [pc EXCEPT ![t] = "done"]
    /\ result' = [result EXCEPT ![t] = r]
    /\ path' = [path EXCEPT ![t] = NoDoc]
    /\ via' = [via EXCEPT ![t] = "none"]
    /\ cbDoc' = [cbDoc EXCEPT ![t] = NoDoc]
    /\ invoked' = [invoked EXCEPT ![t] = 0]
    /\ cbRet' = [cbRet EXCEPT ![t] = "none"]
    /\ dropped' = [dropped EXCEPT ![t] = NoDoc]

\* The key that left the pool between c and d (NoDoc: none did).
Evicted(c, d) ==
    IF Keys(c) \subseteq Keys(d) THEN NoDoc ELSE CHOOSE k \in Keys(c) : k \notin Keys(d)

\* ------------------------------------------------------- with_document
\* A thread calls with_document(path, f).
Call(t, d) ==
    /\ pc[t] = "idle"
    /\ pc' = [pc EXCEPT ![t] = "lock"]
    /\ path' = [path EXCEPT ![t] = d]
    /\ UNCHANGED <<cache, lockHolder, poisoned, via, cbDoc, invoked, cbRet,
                   dropped, result, own, rank, loadVars, pageVars, ttsVars>>

\* pool.lock() succeeds: the guard is held until with_document returns.
Lock(t) ==
    /\ pc[t] = "lock"
    /\ LockFree(lockHolder)
    /\ ~poisoned
    /\ lockHolder' = t
    /\ pc' = [pc EXCEPT ![t] = "locked"]
    /\ UNCHANGED <<cache, poisoned, path, via, cbDoc, invoked, cbRet, dropped,
                   result, own, rank, loadVars, pageVars, ttsVars>>

\* pool.lock() on a poisoned Mutex: Err, mapped to "Failed to lock document
\* pool"; the guard inside the error is dropped at once.
LockPoisoned(t) ==
    /\ pc[t] = "lock"
    /\ LockFree(lockHolder)
    /\ poisoned
    /\ Finish(t, "LOCK")
    /\ UNCHANGED <<cache, lockHolder, poisoned, own, rank, loadVars, pageVars, ttsVars>>

\* cache.get(path) is Some(doc): the entry becomes the most recently used
\* and f(doc) starts.
GetHit(t) ==
    /\ pc[t] = "locked"
    /\ Cached(cache, path[t], stale)
    /\ cache' = LruGet(cache, path[t])
    /\ rank' = Forget(Touch(rank, path[t]), cache')
    /\ via' = [via EXCEPT ![t] = "hit"]
    /\ cbDoc' = [cbDoc EXCEPT ![t] = Handle(cache', path[t])]
    /\ invoked' = [invoked EXCEPT ![t] = @ + 1]
    /\ pc' = [pc EXCEPT ![t] = "callback"]
    /\ lockHolder' = GuardDuringCallback(t)
    /\ UNCHANGED <<poisoned, path, cbRet, dropped, result, own,
                   loadVars, pageVars, ttsVars>>

\* cache.get(path) is None: go on to load.
GetMiss(t) ==
    /\ pc[t] = "locked"
    /\ ~Cached(cache, path[t], stale)
    /\ pc' = [pc EXCEPT ![t] = "load"]
    /\ UNCHANGED <<cache, lockHolder, poisoned, path, via, cbDoc, invoked,
                   cbRet, dropped, result, own, rank, loadVars, pageVars, ttsVars>>

\* load_pdf_document fails: `?` returns the error, dropping the guard.
LoadFail(t, o) ==
    /\ pc[t] = "load"
    /\ o \in OpenErrors \cap LoadResults(path[t], stale)
    /\ cache' = CacheAfterLoad(cache, path[t], o)
    /\ rank' = Forget(rank, cache')
    /\ lockHolder' = NoThread
    /\ Finish(t, o)
    /\ UNCHANGED <<poisoned, own, loadVars, pageVars, ttsVars>>

\* load_pdf_document succeeds: cache.put, cache.get, and f(doc) starts.
LoadOk(t) ==
    /\ pc[t] = "load"
    /\ "OK" \in LoadResults(path[t], stale)
    /\ cache' = CacheAfterLoad(cache, path[t], "OK")
    /\ rank' = Forget(Touch(rank, path[t]), cache')
    /\ via' = [via EXCEPT ![t] = "miss"]
    /\ cbDoc' = [cbDoc EXCEPT ![t] = Handle(cache', path[t])]
    /\ invoked' = [invoked EXCEPT ![t] = @ + 1]
    /\ dropped' = [dropped EXCEPT ![t] = Evicted(cache, cache')]
    /\ pc' = [pc EXCEPT ![t] = "callback"]
    /\ lockHolder' = GuardDuringCallback(t)
    /\ UNCHANGED <<poisoned, path, cbRet, result, own, loadVars, pageVars, ttsVars>>

\* The callback returns Ok or Err to with_document.
CallbackReturn(t, r) ==
    /\ pc[t] = "callback"
    /\ cbRet' = [cbRet EXCEPT ![t] = r]
    /\ pc' = [pc EXCEPT ![t] = "cbdone"]
    /\ UNCHANGED <<cache, lockHolder, poisoned, path, via, cbDoc, invoked,
                   dropped, result, own, rank, loadVars, pageVars, ttsVars>>

\* with_document returns the callback's result and drops the guard.
WithDocumentReturn(t) ==
    /\ pc[t] = "cbdone"
    /\ lockHolder' = NoThread
    /\ Finish(t, Returned(via[t], cbRet[t]))
    /\ UNCHANGED <<cache, poisoned, own, rank, loadVars, pageVars, ttsVars>>

\* The callback panics: unwinding drops the guard, which poisons the Mutex.
CallbackPanic(t) ==
    /\ pc[t] = "callback"
    /\ poisoned' = GuardDropPoisons(poisoned, TRUE)
    /\ lockHolder' = NoThread
    /\ Finish(t, "PANIC")
    /\ UNCHANGED <<cache, own, rank, loadVars, pageVars, ttsVars>>

\* The caller has the result; the thread is free for its next operation.
Return(t) ==
    /\ pc[t] = "done"
    /\ pc' = [pc EXCEPT ![t] = "idle"]
    /\ result' = [result EXCEPT ![t] = "none"]
    /\ UNCHANGED <<cache, lockHolder, poisoned, path, via, cbDoc, invoked,
                   cbRet, dropped, own, rank, loadVars, pageVars, ttsVars>>

\* ------------------------------------- extract_pdf_cover, detect_pdf_whitespace
\* extract_pdf_cover: with_pdfium(|pdfium| load_pdf_document(pdfium, book_path)),
\* no pool, no lock; the handle is a local of the closure. A failed load
\* returns its error at once and leaves the thread where it was.
CoverOpen(t, d, o) ==
    /\ pc[t] = "idle"
    /\ o \in LoadOutcomes
    /\ IF o = "OK"
         THEN /\ own' = [own EXCEPT ![t] = d]
              /\ pc' = [pc EXCEPT ![t] = "own"]
         ELSE UNCHANGED <<own, pc>>
    /\ UNCHANGED <<cache, lockHolder, poisoned, path, via, cbDoc, invoked,
                   cbRet, dropped, result, rank, loadVars, pageVars, ttsVars>>

\* detect_pdf_whitespace: with_pdfium(|pdfium| pdfium.load_pdf_from_file(..)),
\* no pre-flight check, no pool, no lock.
CropOpen(t, d, o) ==
    /\ pc[t] = "idle"
    /\ o \in CropOutcomes
    /\ IF o = "OK"
         THEN /\ own' = [own EXCEPT ![t] = d]
              /\ pc' = [pc EXCEPT ![t] = "own"]
         ELSE UNCHANGED <<own, pc>>
    /\ UNCHANGED <<cache, lockHolder, poisoned, path, via, cbDoc, invoked,
                   cbRet, dropped, result, rank, loadVars, pageVars, ttsVars>>

\* The closure renders and returns: its local handle is dropped.
OwnClose(t) ==
    /\ pc[t] = "own"
    /\ own' = [own EXCEPT ![t] = NoDoc]
    /\ pc' = [pc EXCEPT ![t] = "idle"]
    /\ UNCHANGED <<cache, lockHolder, poisoned, path, via, cbDoc, invoked,
                   cbRet, dropped, result, rank, loadVars, pageVars, ttsVars>>

Next ==
    \/ \E t \in Threads, d \in Docs : Call(t, d)
    \/ \E t \in Threads : Lock(t)
    \/ \E t \in Threads : LockPoisoned(t)
    \/ \E t \in Threads : GetHit(t)
    \/ \E t \in Threads : GetMiss(t)
    \/ \E t \in Threads, o \in OpenErrors : LoadFail(t, o)
    \/ \E t \in Threads : LoadOk(t)
    \/ \E t \in Threads, r \in {"Ok", "Err"} : CallbackReturn(t, r)
    \/ \E t \in Threads : WithDocumentReturn(t)
    \/ \E t \in Threads : CallbackPanic(t)
    \/ \E t \in Threads : Return(t)
    \/ \E t \in Threads, d \in Docs, o \in LoadOutcomes : CoverOpen(t, d, o)
    \/ \E t \in Threads, d \in Docs, o \in CropOutcomes : CropOpen(t, d, o)
    \/ \E t \in Threads : OwnClose(t)

Spec == Init /\ [][Next]_vars

\* ---------------------------------- with_document under fair scheduling
\* The callback of thread t calls with_document(d, ..) itself: the thread
\* arrives at pool.lock() holding the guard of its outer call.
CallbackReenters(t, d) ==
    /\ pc[t] = "callback"
    /\ pc' = [pc EXCEPT ![t] = "lock"]
    /\ path' = [path EXCEPT ![t] = d]
    /\ UNCHANGED <<cache, lockHolder, poisoned, via, cbDoc, invoked, cbRet,
                   dropped, result, own, rank, loadVars, pageVars, ttsVars>>

\* Mutex::lock on a Mutex its own thread holds never returns: it blocks for
\* ever (no step) or panics, and the panic unwinds through both calls.
RelockPanics(t) ==
    /\ pc[t] = "lock"
    /\ lockHolder = t
    /\ poisoned' = GuardDropPoisons(poisoned, TRUE)
    /\ lockHolder' = NoThread
    /\ Finish(t, "PANIC")
    /\ UNCHANGED <<cache, own, rank, loadVars, pageVars, ttsVars>>

\* The steps thread t takes by itself once it has the lock or the error.
Runs(t) ==
    \/ LockPoisoned(t)
    \/ GetHit(t)
    \/ GetMiss(t)
    \/ \E o \in OpenErrors : LoadFail(t, o)
    \/ LoadOk(t)
    \/ \E r \in {"Ok", "Err"} : CallbackReturn(t, r)
    \/ WithDocumentReturn(t)

\* The documents asked for in SpecFair.
FairDocs == 1..NumFairDocs

NextFair ==
    \/ \E t \in Threads, d \in FairDocs : Call(t, d)
    \/ \E t \in Threads : Lock(t)
    \/ \E t \in Threads : Runs(t)
    \/ \E t \in Threads : CallbackPanic(t)
    \/ \E t \in Threads : Return(t)
    \/ \E t \in Threads, d \in FairDocs : CallbackReenters(t, d)
    \/ \E t \in Threads : RelockPanics(t)

\* Every thread keeps running: every load and callback ends, and a thread
\* waiting at a lock that stays free takes it. Mutex::lock promises no order
\* among waiting threads, so nothing more is assumed of it.
Fairness ==
    \A t \in Threads : WF_vars(Runs(t)) /\ WF_vars(Lock(t))

SpecFair == Init /\ [][NextFair]_vars /\ Fairness

\* ------------------------------- with_document while a file changes
\* The file of document d is deleted, emptied or replaced; once.
FileGoesStale(d, f) ==
    /\ stale = NoStale
    /\ stale' = [doc |-> d, file |-> f]
    /\ UNCHANGED <<poolVars, lfile, lstage, lres, engineCalls, pageVars, ttsVars>>

\* One thread calls with_document again and again.
Caller == "t1"

NextStale ==
    \/ \E d \in Docs : Call(Caller, d)
    \/ Lock(Caller)
    \/ GetHit(Caller)
    \/ GetMiss(Caller)
    \/ \E o \in OpenErrors : LoadFail(Caller, o)
    \/ LoadOk(Caller)
    \/ \E r \in {"Ok", "Err"} : CallbackReturn(Caller, r)
    \/ WithDocumentReturn(Caller)
    \/ Return(Caller)
    \/ \E d \in Docs, f \in StaleFiles : FileGoesStale(d, f)

SpecStale == Init /\ [][NextStale]_vars

\* ------------------------------------------- load_pdf_document on its own
InitLoad ==
    /\ cache = <<>>
    /\ lockHolder = NoThread
    /\ poisoned = FALSE
    /\ pc = [t \in Threads |-> "idle"]
    /\ path = [t \in Threads |-> NoDoc]
    /\ via = [t \in Threads |-> "none"]
    /\ cbDoc = [t \in Threads |-> NoDoc]
    /\ invoked = [t \in Threads |-> 0]
    /\ cbRet = [t \in Threads |-> "none"]
    /\ dropped = [t \in Threads |-> NoDoc]
    /\ result = [t \in Threads |-> "none"]
    /\ own = [t \in Threads |-> NoDoc]
    /\ rank = [d \in Docs |-> 0]
    /\ lfile \in Files
    /\ lstage = "start"
    /\ lres = "none"
    /\ engineCalls = 0
    /\ stale = NoStale
    /\ PageOff
    /\ TtsOff

\* ensure_pdf_header(path)? returns its error.
PreflightFail ==
    /\ lstage = "start"
    /\ ensure_pdf_header(lfile) # "OK"
    /\ lres' = ensure_pdf_header(lfile)
    /\ lstage' = "done"
    /\ UNCHANGED <<poolVars, pageVars, ttsVars, lfile, engineCalls, stale>>

\* ensure_pdf_header(path)? is Ok(()).
PreflightPass ==
    /\ lstage = "start"
    /\ ensure_pdf_header(lfile) = "OK"
    /\ lstage' = "engine"
    /\ UNCHANGED <<poolVars, pageVars, ttsVars, lfile, lres, engineCalls, stale>>

\* pdfium.load_pdf_from_file(path, None).map_err(map_pdfium_load_error)
EngineLoad ==
    /\ lstage = "engine"
    /\ engineCalls' = engineCalls + 1
    /\ lres' = IF lfile.engine = "Ok" THEN "OK"
               ELSE map_pdfium_load_error(lfile.engine)
    /\ lstage' = "done"
    /\ UNCHANGED <<poolVars, pageVars, ttsVars, lfile, stale>>

NextLoad == PreflightFail \/ PreflightPass \/ EngineLoad

SpecLoad == InitLoad /\ [][NextLoad]_vars

\* ------------------------------------------ page operations on their own
\* The pool and load_pdf_document at rest.
PoolIdle ==
    /\ cache = <<>>
    /\ lockHolder = NoThread
    /\ poisoned = FALSE
    /\ pc = [t \in Threads |-> "idle"]
    /\ path = [t \in Threads |-> NoDoc]
    /\ via = [t \in Threads |-> "none"]
    /\ cbDoc = [t \in Threads |-> NoDoc]
    /\ invoked = [t \in Threads |-> 0]
    /\ cbRet = [t \in Threads |-> "none"]
    /\ dropped = [t \in Threads |-> NoDoc]
    /\ result = [t \in Threads |-> "none"]
    /\ own = [t \in Threads |-> NoDoc]
    /\ rank = [d \in Docs |-> 0]

LoadOff ==
    /\ lfile = NoFile
    /\ lstage = "off"
    /\ lres = "none"
    /\ engineCalls = 0
    /\ stale = NoStale

InitPage ==
    /\ PoolIdle
    /\ LoadOff
    /\ TtsOff
    /\ pdoc \in PageDocs
    /\ pcall = NoCall
    /\ pstage = "ready"
    /\ pageGot = NoPage
    /\ tolerance = 0
    /\ picked = NoChar
    /\ queries = <<>>
    /\ pres = NoResult

\* An operation that runs in one step: its call, the page it gets, its result.
RunsTo(op, i, s, e, r) ==
    /\ pstage = "ready"
    /\ pcall' = [op |-> op, page_index |-> i, start_index |-> s, end_index |-> e]
    /\ pageGot' = pages_get(pdoc.count, i)
    /\ pres' = r
    /\ pstage' = "done"
    /\ UNCHANGED <<pdoc, tolerance, picked, queries, poolVars, loadVars, ttsVars>>

RenderPdfPage(i) ==
    RunsTo("render_pdf_page", i, 0, 0, render_pdf_page(pdoc, i))

ExtractPdfPageText(i) ==
    RunsTo("extract_pdf_page_text", i, 0, 0, extract_pdf_page_text(pdoc, i))

ExtractPdfPageTextBounds(i, s, e) ==
    RunsTo("extract_pdf_page_text_bounds", i, s, e,
           extract_pdf_page_text_bounds(pdoc, i, s, e))

ExtractAllPageCharacterBounds(i) ==
    RunsTo("extract_all_page_character_bounds", i, 0, 0,
           extract_all_page_character_bounds(pdoc, i))

\* extract_pdf_page_text_from_point up to the tolerance loop.
FromPointStart(i) ==
    /\ pstage = "ready"
    /\ pcall' = [op |-> "extract_pdf_page_text_from_point", page_index |-> i,
                 start_index |-> 0, end_index |-> 0]
    /\ pageGot' = pages_get(pdoc.count, i)
    /\ IF pages_get(pdoc.count, i) = NoPage
       THEN /\ pres' = Err("PAGE_INDEX")
            /\ pstage' = "done"
            /\ UNCHANGED tolerance
       ELSE /\ tolerance' = FirstTolerance
            /\ pstage' = "query"
            /\ UNCHANGED pres
    /\ UNCHANGED <<pdoc, picked, queries, poolVars, loadVars, ttsVars>>

\* One round of the loop: get_char_near_point answers ans.
QueryNear(ans) ==
    /\ pstage = "query"
    /\ AttemptsLeft(Len(queries))
    /\ ~LoopBreaks(picked)
    /\ queries' = Append(queries, [tx |-> tolerance, ty |-> tolerance, ans |-> ans])
    /\ picked' = ans
    /\ tolerance' = IF ans = NoChar THEN NextTolerance(tolerance) ELSE tolerance
    /\ UNCHANGED <<pdoc, pcall, pstage, pageGot, pres, poolVars, loadVars, ttsVars>>

\* After the loop: the snap and the text.
FromPointFinish ==
    /\ pstage = "query"
    /\ LoopBreaks(picked) \/ ~AttemptsLeft(Len(queries))
    /\ pres' = from_point_result(pdoc.text, picked)
    /\ pstage' = "done"
    /\ UNCHANGED <<pdoc, pcall, pageGot, tolerance, picked, queries, poolVars,
                   loadVars, ttsVars>>

NextPage ==
    \/ \E i \in PageIndexes : RenderPdfPage(i)
    \/ \E i \in PageIndexes : ExtractPdfPageText(i)
    \/ \E i \in PageIndexes, s \in CharIndexes, e \in CharIndexes :
          ExtractPdfPageTextBounds(i, s, e)
    \/ \E i \in PageIndexes : ExtractAllPageCharacterBounds(i)
    \/ \E i \in PageIndexes : FromPointStart(i)
    \/ \E ans \in {NoChar} \cup (0..(Len(pdoc.text) - 1)) : QueryNear(ans)
    \/ FromPointFinish

SpecPage == InitPage /\ [][NextPage]_vars

\* ------------------------------------------------- tts_text on its own
InitTts ==
    /\ PoolIdle
    /\ LoadOff
    /\ PageOff
    /\ ttsIn \in Texts
    /\ ttsStage = "ready"
    /\ ttsNorm = <<>>
    /\ ttsAgain = <<>>
    /\ ttsWords = <<>>
    /\ ttsSentences = <<>>
    /\ ttsFound = NoFind

\* precompute_text_highlights(text)
PrecomputeTextHighlights ==
    /\ ttsStage = "ready"
    /\ ttsNorm' = normalize_text(ttsIn)
    /\ ttsWords' = words_of(normalize_text(ttsIn))
    /\ ttsSentences' = sentences_of(normalize_text(ttsIn))
    /\ ttsStage' = "done"
    /\ UNCHANGED <<ttsIn, ttsAgain, ttsFound, poolVars, loadVars, pageVars>>

\* normalize_text applied to the normalized text.
NormalizeAgain ==
    /\ ttsStage = "done"
    /\ ttsAgain' = normalize_text(ttsNorm)
    /\ ttsStage' = "again"
    /\ UNCHANGED <<ttsIn, ttsNorm, ttsWords, ttsSentences, ttsFound, poolVars,
                   loadVars, pageVars>>

\* find_sentence_for_offset(&sentences, offset)
FindSentenceForOffset(offset) ==
    /\ ttsStage = "done"
    /\ ttsFound' = [offset |-> offset,
                    found |-> find_sentence_for_offset(ttsSentences, offset)]
    /\ ttsStage' = "found"
    /\ UNCHANGED <<ttsIn, ttsNorm, ttsAgain, ttsWords, ttsSentences, poolVars,
                   loadVars, pageVars>>

NextTts ==
    \/ PrecomputeTextHighlights
    \/ NormalizeAgain
    \/ \E offset \in 0..(Len(ttsNorm) + 1) : FindSentenceForOffset(offset)

SpecTts == InitTts /\ [][NextTts]_vars

\* ------------------------------- find_sentence_for_offset on any list
InitFind ==
    /\ PoolIdle
    /\ LoadOff
    /\ PageOff
    /\ ttsIn = <<>>
    /\ ttsStage = "done"
    /\ ttsNorm = <<>>
    /\ ttsAgain = <<>>
    /\ ttsWords = <<>>
    /\ ttsSentences \in SpanLists
    /\ ttsFound = NoFind

NextFind == \E offset \in 0..(MaxOffset + 1) : FindSentenceForOffset(offset)

SpecFind == InitFind /\ [][NextFind]_vars

\* ================================================================ claims
InCall == {"locked", "load", "callback", "cbdone"}

\* The pooled key whose most recent access is the oldest.
Oldest(c, r) == CHOOSE v \in Keys(c) : \A k \in Keys(c) : r[k] <= r[v]

\* C1: after any sequence of with_document calls (hits, misses, load
\* failures, callback failures, from several threads) the document pool
\* holds at most 4 handles.
C1_PoolAtMostFour == Len(cache) <= Cap

\* C1 witness: a call has inserted into a full pool, evicting a key, while
\* another call has ended in a load failure or a callback error.
C1_Witness ==
    \E t \in Threads, u \in Threads :
        /\ pc[t] = "callback" /\ dropped[t] # NoDoc /\ Len(cache) = Cap
        /\ pc[u] = "done" /\ result[u] \in OpenErrors \cup {"Err"}

\* C2: a miss on a pool of 4 whose load succeeds evicts exactly one entry, the
\* one whose most recent access (hit or insertion) is the oldest; the other
\* three and the new one remain; a hit evicts nothing; and at every moment the
\* pool's order is the order of most recent access.
C2_EvictsLeastRecentlyAccessed ==
    /\ [](\A i \in 1..Len(cache) : rank[cache[i].key] = i)
    /\ [][\A t \in Threads :
            /\ (pc[t] = "load" /\ pc'[t] = "callback" /\ Len(cache) = Cap) =>
                  /\ Len(cache') = Cap
                  /\ path[t] \notin Keys(cache)
                  /\ Keys(cache') =
                        (Keys(cache) \ {Oldest(cache, rank)}) \cup {path[t]}
                  /\ dropped'[t] = Oldest(cache, rank)
            /\ (pc[t] = "locked" /\ pc'[t] = "callback") =>
                  /\ Keys(cache') = Keys(cache)
                  /\ cache'[1].key = path[t]
                  /\ dropped'[t] = NoDoc]_vars

\* C2 witness: a call that missed on a full pool runs its callback: the key it
\* evicted is gone, the pool is full again and its path is the most recent.
C2_Witness ==
    \E t \in Threads :
        /\ pc[t] = "callback" /\ via[t] = "miss" /\ dropped[t] # NoDoc
        /\ Len(cache) = Cap /\ dropped[t] \notin Keys(cache)
        /\ cache[1].key = path[t]

\* C3: while a with_document callback runs on the handle of path p, p is in
\* the pool with that handle, and no step of any caller changes the pool.
C3_HandleStaysWhileBorrowed ==
    /\ [](\A t \in Threads : pc[t] = "callback" =>
            /\ path[t] \in Keys(cache)
            /\ cbDoc[t] = Handle(cache, path[t]))
    /\ [][\A t \in Threads : pc[t] = "callback" => cache' = cache]_vars

\* C3 witness: a callback runs on a pooled handle of a full pool while another
\* caller is waiting with a path that is not in the pool (its load would evict).
C3_Witness ==
    \E t \in Threads, u \in Threads :
        /\ pc[t] = "callback" /\ Len(cache) = Cap
        /\ pc[u] = "lock" /\ path[u] \notin Keys(cache)

\* C4: at most one with_document callback executes at any time, and a thread
\* between its lookup and its return holds the single pool lock.
C4_CallbacksSerialized ==
    /\ Cardinality({t \in Threads : pc[t] = "callback"}) <= 1
    /\ \A t \in Threads : pc[t] \in InCall => lockHolder = t

\* C4 witness: one callback runs while a concurrent call naming a different
\* path waits for the lock.
C4_Witness ==
    \E t \in Threads, u \in Threads :
        /\ pc[t] = "callback" /\ pc[u] = "lock" /\ path[u] # path[t]

\* C5: a with_document call whose load fails leaves the pool and its recency
\* order as they were (no eviction, even when full), invokes no callback and
\* returns the load error; nothing is remembered: every call that misses goes
\* on to load.
C5_LoadFailureLeavesPool ==
    /\ [][\A t \in Threads : (pc[t] = "load" /\ pc'[t] = "done") =>
            /\ cache' = cache
            /\ rank' = rank
            /\ invoked[t] = 0
            /\ result'[t] \in OpenErrors]_vars
    /\ [][\A t \in Threads :
            (pc[t] = "locked" /\ pc'[t] # "locked" /\ path[t] \notin Keys(cache))
                => pc'[t] = "load"]_vars

\* C5 witness: a call has returned a load error and the pool is still full.
C5_Witness ==
    \E t \in Threads :
        pc[t] = "done" /\ result[t] \in OpenErrors /\ Len(cache) = Cap

\* C6: the pool never holds two entries for one path, and a path is loaded
\* by with_document only while it is not in the pool.
C6_OneHandlePerPath ==
    /\ [](\A i \in 1..Len(cache), j \in 1..Len(cache) :
            cache[i].key = cache[j].key => i = j)
    /\ [][\A t \in Threads : (pc[t] = "load" /\ pc'[t] # "load") =>
            path[t] \notin Keys(cache)]_vars

\* C6 witness: one call has loaded path p and runs its callback while a
\* concurrent call for the same p waits.
C6_Witness ==
    \E t \in Threads, u \in Threads :
        /\ pc[t] = "callback" /\ via[t] = "miss"
        /\ pc[u] = "lock" /\ path[u] = path[t]

C8_ReturnsCallbackResult ==
    /\ [](\A t \in Threads :
            /\ pc[t] \in {"callback", "cbdone"} =>
                  (invoked[t] = 1 /\ cbDoc[t] = path[t] /\ via[t] \in {"hit", "miss"})
            /\ pc[t] \in {"lock", "locked", "load"} => invoked[t] = 0)
    /\ [][\A t \in Threads : (pc[t] = "cbdone" /\ pc'[t] = "done") =>
            result'[t] = cbRet[t]]_vars
    /\ [][\A t \in Threads : (pc[t] = "locked" /\ pc'[t] # "locked"
                               /\ path[t] \in Keys(cache)) =>
            pc'[t] = "callback"]_vars

\* C8 witness: a call on the hit path has its callback's error in hand while
\* another call has returned a callback error.
C8_Witness ==
    \E t \in Threads, u \in Threads :
        /\ pc[t] = "cbdone" /\ via[t] = "hit" /\ cbRet[t] = "Err"
        /\ pc[u] = "done" /\ result[u] = "Err"

\* ------------------------------------------------- load_pdf_document claims
\* The signature lies within the file's first 1024 bytes.
SigInFirstKB(f) == f.sigAt # -1 /\ f.sigAt + SigLen <= Min(f.len, BufLen)
\* The one read fills the buffer as far as the file goes.
FullRead(f) == f.read = Min(f.len, BufLen)

\* C9 as claimed, for files whose read is complete: the checks in the order
\* FILE (cannot be stat'ed or opened), EMPTY (zero length), HEADER (no
\* signature in the first 1024 bytes), then the engine, whose corrupt-
\* structure report yields FORMAT.
C9_PreflightOrderAsClaimed ==
    (lstage = "done" /\ (FullRead(lfile) \/ ~lfile.stat \/ ~lfile.open)) =>
        IF ~lfile.stat \/ ~lfile.open THEN lres = "FILE" /\ engineCalls = 0
        ELSE IF lfile.len = 0 THEN lres = "EMPTY" /\ engineCalls = 0
        ELSE IF ~SigInFirstKB(lfile) THEN lres = "HEADER" /\ engineCalls = 0
        ELSE engineCalls = 1 /\ (lfile.engine = "FormatError" => lres = "FORMAT")

\* C9 amended: stat failure yields FILE; a zero length yields EMPTY before
\* the file is opened; a failed open or read yields FILE; a read of 0 bytes
\* yields EMPTY; no signature in the bytes read (at most 1024) yields HEADER,
\* so a file read in full whose first 1024 bytes lack it yields HEADER; the
\* engine is called once, only after all of these passed, and its
\* corrupt-structure report yields FORMAT.
C9_PreflightOrder ==
    lstage = "done" =>
        /\ IF ~lfile.stat THEN lres = "FILE"
           ELSE IF lfile.len = 0 THEN lres = "EMPTY"
           ELSE IF ~lfile.open \/ lfile.read = -1 THEN lres = "FILE"
           ELSE IF lfile.read = 0 THEN lres = "EMPTY"
           ELSE IF ~(lfile.sigAt # -1 /\ lfile.sigAt + SigLen <= lfile.read)
                THEN lres = "HEADER"
           ELSE /\ engineCalls = 1
                /\ (lfile.engine = "FormatError" => lres = "FORMAT")
                /\ (lfile.engine = "Ok" => lres = "OK")
        /\ (lfile.stat /\ lfile.len > 0 /\ lfile.open /\ lfile.read > 0
              /\ ~SigInFirstKB(lfile)) => lres = "HEADER"
        /\ engineCalls = 1 =>
              (lfile.stat /\ lfile.len > 0 /\ lfile.open /\ lfile.read > 0
                 /\ SigInFirstKB(lfile))
        /\ engineCalls \in {0, 1}
        /\ lres \in {"EMPTY", "HEADER"} => engineCalls = 0

\* C9 witness: a zero-length file that cannot be opened has yielded EMPTY.
C9_Witness ==
    /\ lstage = "done" /\ lfile.stat /\ lfile.len = 0 /\ ~lfile.open
    /\ lres = "EMPTY" /\ engineCalls = 0

\* The kinds of the error taxonomy as load results.
TaxonomyKinds == {"FILE", "EMPTY", "HEADER", "FORMAT", "PASSWORD", "SECURITY",
                  "PAGE", "LOCK"}

PageOps == {"render_pdf_page", "extract_pdf_page_text",
            "extract_pdf_page_text_from_point", "extract_pdf_page_text_bounds",
            "extract_all_page_character_bounds"}

\* C11: every page operation called with page_index >= page count gets no
\* page (it renders or reads none) and ends with the page-index-out-of-range
\* error.
C11_OutOfRangeIndexFails ==
    (pcall.op \in PageOps /\ pcall.page_index >= pdoc.count)
        => /\ pageGot = NoPage
           /\ pstage = "done"
           /\ ~pres.ok
           /\ pres.val = "PAGE_INDEX"

\* ------------------------------------------------------------------ C12
\* The running operation is op and it got its page.
OnPage(op) == pcall.op = op /\ pstage = "done" /\ pageGot # NoPage

\* The entry that describes character i of the page: its rectangle, or the
\* zero rectangle when it has none.
EntryFor(i) ==
    IF Visible(CharAt(pdoc.text, i)) THEN char_rect(CharAt(pdoc.text, i), pdoc.geom)
    ELSE ZeroRect

\* C12: on every page, of every geometry, extract_all_page_character_bounds
\* returns as many entries as the text layer has characters, entry i
\* describing character i.
C12_AllBoundsIndexAligned ==
    OnPage("extract_all_page_character_bounds")
        => /\ pres.ok
           /\ Len(pres.val) = Len(pdoc.text)
           /\ \A i \in 0..(Len(pdoc.text) - 1) : pres.val[i + 1] = EntryFor(i)

\* ------------------------------------------------------------------ C13
\* The entries of the list all for the indices i..hi-1 whose character is
\* read, has a codepoint, is not whitespace and has bounds, in index order.
RECURSIVE EntriesOfVisible(_, _, _)
EntriesOfVisible(all, i, hi) ==
    IF i >= hi THEN <<>>
    ELSE (IF Visible(CharAt(pdoc.text, i)) THEN <<all[i + 1]>> ELSE <<>>)
             \o EntriesOfVisible(all, i + 1, hi)

\* The list returned for the range [s, e) is, in order, the entries
\* extract_all_page_character_bounds has for the indices of [s, min(e, total))
\* whose character is read, has a codepoint, is not whitespace and has bounds;
\* every other index of the range has the zero rectangle there.
RangeRefinesAll ==
    LET all == extract_all_page_character_bounds(pdoc, pcall.page_index)
        lo == pcall.start_index
        hi == Min(pcall.end_index, Len(pdoc.text))
    IN  /\ pres.ok
        /\ all.ok
        /\ lo < hi => Len(all.val) >= hi
        /\ Len(all.val) >= hi => pres.val = EntriesOfVisible(all.val, lo, hi)
        /\ \A i \in lo..(hi - 1) :
              ~Visible(CharAt(pdoc.text, i))
                  => i + 1 \in DOMAIN all.val /\ all.val[i + 1] = ZeroRect

\* C13 as claimed: for every page and range [s, e), extract_pdf_page_text_bounds
\* returns exactly the entries of extract_all_page_character_bounds for the
\* characters of the range that have a rectangle, in order, the others being
\* zero rectangles there.
C13_RangeBoundsAreEntriesOfAllBounds ==
    OnPage("extract_pdf_page_text_bounds") => RangeRefinesAll

\* C13, amended: that holds on every page of positive width and height; on a
\* page whose width or height is not positive extract_pdf_page_text_bounds
\* returns the empty list for every range.
C13_RangeBoundsRefineOnPositivePages ==
    OnPage("extract_pdf_page_text_bounds")
        => IF pdoc.geom.width > 0 /\ pdoc.geom.height > 0
           THEN RangeRefinesAll
           ELSE pres.ok /\ pres.val = <<>>

\* A range holding a skipped character between two kept ones, whose
\* rectangles differ.
C13_Witness ==
    /\ OnPage("extract_pdf_page_text_bounds")
    /\ pdoc.geom.width > 0 /\ pdoc.geom.height > 0
    /\ pres.ok
    /\ Len(pres.val) = 2
    /\ pres.val[1] # pres.val[2]
    /\ pcall.end_index - pcall.start_index = 3
    /\ pcall.end_index = Len(pdoc.text)
    /\ ~Visible(CharAt(pdoc.text, pcall.start_index + 1))

\* ------------------------------------------------------------------ C14
\* 0 <= left <= right <= 1 and 0 <= top <= bottom <= 1, a normalized x being
\* held as x * width and a normalized y as y * height.
InUnitSquare(r, g) ==
    /\ 0 <= r.left /\ r.left <= r.right /\ r.right <= g.width
    /\ 0 <= r.top /\ r.top <= r.bottom /\ r.bottom <= g.height

BoundsOps == {"extract_pdf_page_text_bounds", "extract_all_page_character_bounds"}

\* C14: every rectangle returned by extract_pdf_page_text_bounds or
\* extract_all_page_character_bounds has 0 <= left <= right <= 1 and
\* 0 <= top <= bottom <= 1, whatever the character's box (inverted, partly or
\* wholly outside the page) and the page's origin and size.
C14_RectanglesInUnitSquare ==
    (pstage = "done" /\ pcall.op \in BoundsOps /\ pres.ok)
        => \A n \in 1..Len(pres.val) :
              /\ pdoc.geom.width > 0 /\ pdoc.geom.height > 0
              /\ InUnitSquare(pres.val[n], pdoc.geom)

\* A rectangle was returned for a box that is inverted on both axes and lies
\* partly outside a page whose origin is not (0, 0).
C14_Witness ==
    /\ pstage = "done" /\ pcall.op \in BoundsOps /\ pres.ok
    /\ Len(pres.val) = 1
    /\ pdoc.geom.left # 0
    /\ Len(pdoc.text) = 1
    /\ pdoc.text[1].box.left > pdoc.text[1].box.right
    /\ pdoc.text[1].box.top < pdoc.text[1].box.bottom
    /\ pdoc.text[1].box.right < pdoc.geom.left
    /\ pres.val[1].left < pres.val[1].right
    /\ pres.val[1].top < pres.val[1].bottom

\* ------------------------------------------------------------------ C15
\* C15: on an existing page of a loadable document,
\* extract_pdf_page_text_bounds with start_index >= end_index or start_index >=
\* total returns Ok with an empty list; with end_index > total it returns what
\* it returns for end_index = total.
C15_EmptyRangeIsEmptyList ==
    OnPage("extract_pdf_page_text_bounds")
        => LET total == Len(pdoc.text)
               atTotal == extract_pdf_page_text_bounds(
                              pdoc, pcall.page_index, pcall.start_index, total)
           IN  /\ (pcall.start_index >= pcall.end_index \/ pcall.start_index >= total)
                     => pres.ok /\ pres.val = <<>>
               /\ pcall.end_index > total
                     => pres.ok /\ atTotal.ok /\ pres.val = atTotal.val

\* A range that starts at the end of a text layer with characters and ends
\* beyond it.
C15_Witness ==
    /\ OnPage("extract_pdf_page_text_bounds")
    /\ Len(pdoc.text) > 0
    /\ pdoc.geom.width > 0 /\ pdoc.geom.height > 0
    /\ pcall.start_index = Len(pdoc.text)
    /\ pcall.end_index > pcall.start_index
    /\ pres.ok /\ pres.val = <<>>

\* ------------------------------------------------------------------ C16
\* The tolerances of the claim, in points.
Schedule == <<6, 12, 24, 48>>

\* The queries that returned a character.
Hits == { n \in 1..Len(queries) : queries[n].ans # NoChar }

\* C16: extract_pdf_page_text_from_point queries the nearest character at
\* most 4 times, the n-th time with the n-th of the tolerances 6, 12, 24, 48
\* on both axes; after a query that returns a character it makes no other; and
\* its text is made from the character that query returned.
C16_ToleranceSchedule ==
    /\ [](/\ Len(queries) <= Len(Schedule)
          /\ \A n \in 1..Len(queries) :
                queries[n].tx = Schedule[n] /\ queries[n].ty = Schedule[n]
          /\ \A n \in Hits : n = Len(queries) /\ picked = queries[n].ans
          /\ (pstage = "done" /\ pageGot # NoPage /\ Hits # {})
                => pres = from_point_result(pdoc.text, queries[Len(queries)].ans))
    /\ [][Hits # {} => queries' = queries]_vars

\* The third query, with tolerance 24, returned a character after two misses,
\* and the text was returned.
C16_Witness ==
    /\ pstage = "done"
    /\ Len(queries) = 3
    /\ queries[1].ans = NoChar /\ queries[2].ans = NoChar
    /\ queries[3].ans # NoChar /\ queries[3].tx = 24
    /\ pres.ok /\ pres.val # <<>>

\* ------------------------------------------------------------------ C17
\* extract_pdf_page_text_from_point returned after a query gave a character.
HitDone ==
    /\ pcall.op = "extract_pdf_page_text_from_point"
    /\ pstage = "done"
    /\ picked # NoChar
    /\ Len(pdoc.text) > 0

HasCodepoint(ch) == ch.get /\ ch.cp # "none"
CodepointOf(ch) == ch.cp

\* The codepoints of the characters s..total-1 that have one, in index order.
CodepointsFrom(text, s) ==
    LET kept == SelectSeq(SubSeq(text, s + 1, Len(text)), HasCodepoint)
    IN  [n \in 1..Len(kept) |-> CodepointOf(kept[n])]

\* Index s is a word boundary: the first of the page or after whitespace.
WordBoundary(text, s) == s = 0 \/ is_whitespace(CharAt(text, s - 1).cp)

\* Index s is where the backward scan breaks: a word boundary, or after a
\* character that cannot be read or has no codepoint.
ScanBreak(text, s) ==
    \/ WordBoundary(text, s)
    \/ ~CharAt(text, s - 1).get
    \/ CharAt(text, s - 1).cp = "none"

\* C17 as claimed: on a hit at index k the text returned is the codepoints of
\* the characters s..total-1 for a start s <= k that is a word boundary.
C17_StartsAtWordBoundary ==
    HitDone
        => /\ pres.ok
           /\ \E s \in 0..picked :
                 /\ pres.val = CodepointsFrom(pdoc.text, s)
                 /\ WordBoundary(pdoc.text, s)

\* C17, amended: the start s is at most 32 characters before k, the characters
\* s..k-1 are read, have a codepoint and are not whitespace, and s is a word
\* boundary, or follows a character that cannot be read or has no codepoint,
\* or is exactly 32 characters before k.
C17_StartsAtScanBreakOrLookback ==
    HitDone
        => /\ pres.ok
           /\ \E s \in 0..picked :
                 /\ pres.val = CodepointsFrom(pdoc.text, s)
                 /\ picked - s <= Lookback
                 /\ \A i \in s..(picked - 1) :
                       /\ HasCodepoint(CharAt(pdoc.text, i))
                       /\ ~is_whitespace(CharAt(pdoc.text, i).cp)
                 /\ ScanBreak(pdoc.text, s) \/ picked - s = Lookback

\* A hit on the last character of a word of 34 letters: the text starts at
\* index 1, inside the word.
C17_Witness ==
    /\ HitDone
    /\ Len(pdoc.text) = Lookback + 2
    /\ picked = Lookback + 1
    /\ \A i \in 0..picked : ~is_whitespace(CharAt(pdoc.text, i).cp)
    /\ pres.ok
    /\ Len(pres.val) = Lookback + 1

\* ------------------------------------------------------------------ C18
\* C18: extract_pdf_page_text returns Ok("") for a page whose text layer has no
\* characters, and extract_pdf_page_text_from_point returns Ok("") when every
\* query missed or the text layer has no characters.
C18_NoTextIsEmptyResult ==
    /\ (OnPage("extract_pdf_page_text") /\ Len(pdoc.text) = 0)
          => pres.ok /\ pres.val = <<>>
    /\ (OnPage("extract_pdf_page_text_from_point")
            /\ (Hits = {} \/ Len(pdoc.text) = 0))
          => pres.ok /\ pres.val = <<>>

\* Four queries missed on a page that has text with codepoints.
C18_Witness ==
    /\ OnPage("extract_pdf_page_text_from_point")
    /\ Len(queries) = Attempts
    /\ Hits = {}
    /\ CodepointsFrom(pdoc.text, 0) # <<>>
    /\ pres.ok /\ pres.val = <<>>

\* ------------------------------------------------------------------ C19
\* C19: normalize_text applied to a normalized text returns it unchanged, for
\* every text of letters, space, tab, newline, U+00A0 and U+200B.
C19_NormalizeIdempotent ==
    ttsStage = "again" => ttsAgain = ttsNorm

\* ------------------------------------------------------------------ C20
IsLetter(c) == c \notin WhiteSpace /\ c # Zwsp

\* C20: the normalized text of precompute_text_highlights has no tab, newline,
\* U+00A0 or U+200B, no two spaces in a row, no space first or last, and its
\* non-whitespace characters are those of the input other than U+200B, in
\* the same order.
C20_NormalizedTextIsClean ==
    ttsStage \in {"done", "again"}
        => /\ \A n \in 1..Len(ttsNorm) : ttsNorm[n] \notin {Tab, Newline, Nbsp, Zwsp}
           /\ \A n \in 1..(Len(ttsNorm) - 1) : ~(ttsNorm[n] = " " /\ ttsNorm[n + 1] = " ")
           /\ ttsNorm # <<>> => ttsNorm[1] # " " /\ ttsNorm[Len(ttsNorm)] # " "
           /\ SelectSeq(ttsNorm, IsLetter) = SelectSeq(ttsIn, IsLetter)

\* ------------------------------------------------------------------ C21
\* precompute_text_highlights has returned.
Precomputed == ttsStage \in {"done", "again", "found"}

Covered(spans, n) == \E k \in 1..Len(spans) : spans[k].start < n /\ n <= spans[k].end

\* C21: the word spans have start < end, ascend without overlap, end within
\* the normalized text, carry as text the normalized characters at
\* [start, end), are never only whitespace, and leave only whitespace
\* uncovered.
C21_WordSpansPartitionNonWhitespace ==
    Precomputed
        => /\ \A k \in 1..Len(ttsWords) :
                /\ ttsWords[k].start < ttsWords[k].end
                /\ ttsWords[k].end <= Len(ttsNorm)
                /\ ttsWords[k].text
                       = SubSeq(ttsNorm, ttsWords[k].start + 1, ttsWords[k].end)
                /\ \E n \in 1..Len(ttsWords[k].text) : ttsWords[k].text[n] \notin WhiteSpace
           /\ \A k \in 1..(Len(ttsWords) - 1) :
                ttsWords[k].end <= ttsWords[k + 1].start
           /\ \A n \in 1..Len(ttsNorm) :
                Covered(ttsWords, n) \/ ttsNorm[n] \in WhiteSpace

C21_Witness ==
    /\ Precomputed
    /\ Len(ttsWords) >= 3
    /\ \E n \in 1..Len(ttsNorm) : ~Covered(ttsWords, n)
    /\ \E k \in 1..Len(ttsWords) : ttsWords[k].end - ttsWords[k].start >= 2

\* ------------------------------------------------------------------ C22
WordTexts == [k \in 1..Len(ttsWords) |-> ttsWords[k].text]

OnlyPunctuation(word) == \A n \in 1..Len(word) : word[n] = "."

Hello == <<"H", "e", "l", "l", "o">>
World == <<"w", "o", "r", "l", "d">>
This == <<"T", "h", "i", "s">>
Is == <<"i", "s">>
Test == <<"t", "e", "s", "t">>

\* C22 as stated: no word span consists only of punctuation, and "Hello
\* world. This is a test." has exactly the 6 word spans "Hello", "world",
\* "This", "is", "a", "test".
C22_PunctuationExcluded ==
    Precomputed
        => /\ \A k \in 1..Len(ttsWords) : ~OnlyPunctuation(ttsWords[k].text)
           /\ ttsIn = HelloText
                => WordTexts = <<Hello, World, This, Is, <<"a">>, Test>>

\* C22: a full stop is never left out of the word spans: one that does not
\* stand between two letters is a word span of its own, so "Hello world.
\* This is a test." has 8 word spans, "Hello", "world", ".", "This", "is",
\* "a", "test", ".".
C22_PunctuationIsAWordSpan ==
    Precomputed
        => /\ \A n \in 1..Len(ttsNorm) :
                (/\ ttsNorm[n] = "."
                 /\ ~(/\ n > 1 /\ n < Len(ttsNorm)
                      /\ IsAlpha(ttsNorm[n - 1]) /\ IsAlpha(ttsNorm[n + 1])))
                    => \E k \in 1..Len(ttsWords) :
                            ttsWords[k] = [start |-> n - 1, end |-> n, text |-> <<".">>]
           /\ ttsIn = HelloText
                => WordTexts = <<Hello, World, <<".">>, This, Is, <<"a">>, Test, <<".">>>>

C22_Witness ==
    /\ Precomputed
    /\ ttsIn = HelloText
    /\ Len(ttsWords) = 8
    /\ OnlyPunctuation(ttsWords[3].text)

\* ------------------------------------------------------------------ C23
\* C23: the sentence spans have start < end, ascend without overlap, lie
\* within the normalized text, and begin and end on a character that is not
\* whitespace; "Hello world. This is a test." has exactly the 2 sentences
\* "Hello world." and "This is a test.".
C23_SentenceSpansTrimmedAndOrdered ==
    Precomputed
        => /\ \A k \in 1..Len(ttsSentences) :
                /\ ttsSentences[k].start < ttsSentences[k].end
                /\ ttsSentences[k].end <= Len(ttsNorm)
                /\ ttsNorm[ttsSentences[k].start + 1] \notin WhiteSpace
                /\ ttsNorm[ttsSentences[k].end] \notin WhiteSpace
           /\ \A k \in 1..(Len(ttsSentences) - 1) :
                /\ ttsSentences[k].start < ttsSentences[k + 1].start
                /\ ttsSentences[k].end <= ttsSentences[k + 1].start
           /\ ttsIn = HelloText
                => /\ Len(ttsSentences) = 2
                   /\ SubSeq(ttsNorm, ttsSentences[1].start + 1, ttsSentences[1].end)
                          = Hello \o <<" ">> \o World \o <<".">>
                   /\ SubSeq(ttsNorm, ttsSentences[2].start + 1, ttsSentences[2].end)
                          = This \o <<" ">> \o Is \o <<" ", "a", " ">> \o Test \o <<".">>

C23_Witness ==
    /\ Precomputed
    /\ ttsIn = HelloText
    /\ ttsSentences = <<[start |-> 0, end |-> 12], [start |-> 13, end |-> 28]>>

\* ------------------------------------------------------------------ C24
Found == ttsStage = "found"

\* Sentence k of the list contains the offset asked for.
Contains(k) ==
    /\ ttsFound.offset >= ttsSentences[k].start
    /\ ttsFound.offset < ttsSentences[k].end

LastSentence == ttsSentences[Len(ttsSentences)]

\* C24: find_sentence_for_offset returns the first sentence in list order
\* whose [start, end) contains the offset, the last sentence when the offset
\* is at or past every end, and nothing exactly when the list is empty.
C24_FirstContainingElseLast ==
    Found
        => /\ \A k \in 1..Len(ttsSentences) :
                (Contains(k) /\ \A j \in 1..(k - 1) : ~Contains(j))
                    => ttsFound.found = <<ttsSentences[k]>>
           /\ (/\ ttsSentences # <<>>
               /\ \A k \in 1..Len(ttsSentences) :
                    ttsFound.offset >= ttsSentences[k].end)
                => ttsFound.found = <<LastSentence>>
           /\ ttsFound.found = <<>> <=> ttsSentences = <<>>

C24_Witness ==
    /\ Found
    /\ Len(ttsSentences) = 2
    /\ Contains(1) /\ Contains(2)
    /\ ttsSentences[1] # ttsSentences[2]
    /\ ttsFound.found = <<ttsSentences[1]>>

\* ------------------------------------------------------------------ C25
\* The 32 characters before index k exist and each satisfies P.
LookbackAll(text, k, P(_)) ==
    /\ k >= Lookback
    /\ \A i \in (k - Lookback)..(k - 1) : P(CharAt(text, i))

NotWhitespace(ch) == ~is_whitespace(ch.cp)
Scannable(ch) == HasCodepoint(ch) /\ ~is_whitespace(ch.cp)

\* The text returned starts at s, within the look-back of the hit, after
\* scannable characters only.
SnappedTo(s) ==
    /\ pres.val = CodepointsFrom(pdoc.text, s)
    /\ picked - Lookback <= s
    /\ \A i \in s..(picked - 1) : Scannable(CharAt(pdoc.text, i))

\* C25 as stated: k - 32 <= s <= k and the characters of [s, k) are read, have
\* a codepoint and are not whitespace; when the 32 characters before k are all
\* non-whitespace, s = k - 32 and text is returned.
C25_FullLookbackOnNonWhitespace ==
    HitDone
        => /\ pres.ok
           /\ \E s \in 0..picked :
                /\ SnappedTo(s)
                /\ LookbackAll(pdoc.text, picked, NotWhitespace)
                     => s = picked - Lookback

\* C25: k - 32 <= s <= k and the characters of [s, k) are read, have a
\* codepoint and are not whitespace; when the 32 characters before k are all
\* read, with a codepoint and not whitespace, s = k - 32 and text is returned.
C25_FullLookbackOnScannable ==
    HitDone
        => /\ pres.ok
           /\ \E s \in 0..picked :
                /\ SnappedTo(s)
                /\ LookbackAll(pdoc.text, picked, Scannable)
                     => s = picked - Lookback
           /\ LookbackAll(pdoc.text, picked, Scannable)
                => pres.val = CodepointsFrom(pdoc.text, picked - Lookback)

\* A hit 33 characters into a word of 34 letters: the text starts at index 1.
C25_Witness ==
    /\ HitDone
    /\ picked = Lookback + 1
    /\ LookbackAll(pdoc.text, picked, Scannable)
    /\ Scannable(CharAt(pdoc.text, 0))
    /\ pres.ok
    /\ pres.val = CodepointsFrom(pdoc.text, 1)
    /\ pres.val # CodepointsFrom(pdoc.text, 0)

\* ------------------------------------------------------------------ C26
\* Thread t has the lock and its identifier is in the pool.
AboutToHit(t) == pc[t] = "locked" /\ path[t] \in Keys(cache)

\* Thread t is loading the document whose file went stale.
LoadingStale(t) == pc[t] = "load" /\ path[t] = stale.doc

\* C26: with_document for an identifier in the pool goes straight to the
\* callback with the pooled handle, never through load_pdf_document, whatever
\* has become of the file; for the same identifier out of the pool the load
\* runs and, the file being deleted, emptied or replaced, the call fails
\* without invoking the callback.
C26_PooledHandleSkipsLoad ==
    [][\A t \in Threads :
          /\ AboutToHit(t)
               => \/ pc'[t] = "locked"
                  \/ /\ pc'[t] = "callback"
                     /\ via'[t] = "hit"
                     /\ cbDoc'[t] = Handle(cache, path[t])
                     /\ invoked'[t] = 1
                     /\ Keys(cache') = Keys(cache)
          /\ LoadingStale(t)
               => \/ pc'[t] = "load"
                  \/ /\ pc'[t] = "done"
                     /\ result'[t] = load_pdf_document(stale.file)
                     /\ result'[t] \in {"FILE", "EMPTY", "HEADER"}
                     /\ cache' = cache]_vars

\* The callback runs on the pooled handle of a document whose file is stale.
C26_Witness ==
    \E t \in Threads :
        /\ pc[t] = "callback"
        /\ via[t] = "hit"
        /\ path[t] = stale.doc
        /\ cbDoc[t] = stale.doc
        /\ Len(cache) = Cap

\* ------------------------------------------------------------------ C27
\* C27: a callback's panic poisons the pool lock; the lock stays poisoned; and
\* from then on every with_document call, whatever its identifier, ends at
\* pool.lock() with the lock-failure error, its callback not invoked and the
\* pool not read or changed.
C27_PoisonedPoolFailsEveryCall ==
    [][/\ \A t \in Threads :
             (pc[t] = "callback" /\ result'[t] = "PANIC") => poisoned'
       /\ poisoned => poisoned'
       /\ poisoned
            => /\ cache' = cache
               /\ \A t \in Threads :
                    pc[t] = "lock"
                        => \/ pc'[t] = "lock"
                           \/ /\ pc'[t] = "done"
                              /\ result'[t] = "LOCK"
                              /\ invoked[t] = 0]_vars

\* After a panic with a document in the pool, a call of each thread ended in
\* the lock-failure error.
C27_Witness ==
    /\ poisoned
    /\ \A t \in Threads : pc[t] = "done" /\ result[t] = "LOCK"
    /\ cache # <<>>

\* ------------------------------------------------------------------ C28
\* Thread t waits at pool.lock() of a call made from its own callback.
Reentered(t) == pc[t] = "lock" /\ lockHolder = t

NoReentry == \A t \in Threads : ~Reentered(t)

\* C28 as stated: when no callback calls with_document, every with_document
\* call returns; and a call made from a callback never gets the lock.
C28_EveryCallReturns ==
    /\ []NoReentry => \A t \in Threads : (pc[t] = "lock") ~> (pc[t] = "done")
    /\ [][\A t \in Threads : Reentered(t) => pc'[t] # "locked"]_vars

\* C28: when no callback calls with_document, every call that has got the
\* pool lock returns, and while a call waits for the lock some call returns;
\* and a call made from a callback never gets the lock.
C28_LockHolderReturns ==
    /\ []NoReentry => \A t \in Threads : (pc[t] = "locked") ~> (pc[t] = "done")
    /\ []NoReentry
          => ((\E t \in Threads : pc[t] = "lock") ~> (\E t \in Threads : pc[t] = "done"))
    /\ [][\A t \in Threads : Reentered(t) => pc'[t] # "locked"]_vars

\* Both threads are in a call for the same document, one in its callback and
\* one waiting for the lock.
C28_Witness ==
    \E t, u \in Threads :
        /\ pc[t] = "callback" /\ lockHolder = t
        /\ pc[u] = "lock" /\ ~Reentered(u)
        /\ path[u] = path[t]
        /\ ~poisoned

\* ------------------------------------------------------------------ C29
\* The offset asked for lies after sentence i and before sentence i + 1.
InGap(i) ==
    /\ ttsFound.offset >= ttsSentences[i].end
    /\ ttsFound.offset < ttsSentences[i + 1].start

\* C29 as stated: an offset contained in no sentence finds the last sentence,
\* and an offset in the gap between sentence i and sentence i + 1 finds the
\* last sentence, not sentence i or sentence i + 1.
C29_GapFindsNeitherNeighbour ==
    (Found /\ ttsSentences # <<>>)
        => /\ (\A k \in 1..Len(ttsSentences) : ~Contains(k))
                => ttsFound.found = <<LastSentence>>
           /\ \A i \in 1..(Len(ttsSentences) - 1) :
                InGap(i)
                    => /\ ttsFound.found = <<LastSentence>>
                       /\ ttsFound.found # <<ttsSentences[i]>>
                       /\ ttsFound.found # <<ttsSentences[i + 1]>>

\* C29: on the sentences of precompute_text_highlights, an offset contained
\* in no sentence finds the last sentence; an offset in the gap between
\* sentence i and sentence i + 1 finds the last sentence, which is never
\* sentence i, and is sentence i + 1 only when that is the last.
C29_UncontainedOffsetFindsLast ==
    (Found /\ ttsSentences # <<>>)
        => /\ (\A k \in 1..Len(ttsSentences) : ~Contains(k))
                => ttsFound.found = <<LastSentence>>
           /\ \A i \in 1..(Len(ttsSentences) - 1) :
                InGap(i)
                    => /\ ttsFound.found = <<LastSentence>>
                       /\ ttsFound.found # <<ttsSentences[i]>>
                       /\ i + 1 < Len(ttsSentences)
                            => ttsFound.found # <<ttsSentences[i + 1]>>

C29_Witness ==
    /\ Found
    /\ Len(ttsSentences) = 3
    /\ InGap(1)
    /\ ttsFound.found = <<ttsSentences[3]>>

====
